---- MODULE Spec2Model ----
(***************************************************************************)
(* Carbon-aware redeployment scripts: redeploy_auto.py and its variants.   *)
(* One run of deploy() is a sequence of steps, one per external command    *)
(* (ElectricityMaps query, aws CLI, terraform, HTTP poll); the cloud       *)
(* (running instances, DNS record) and terraform.tfvars are the state the  *)
(* steps read and change. What the API answers, what a command's exit      *)
(* status is and which security groups a listing shows are inputs of the   *)
(* step that asks.                                                         *)
(* Spec runs redeploy_auto.deploy, SpecRepeat runs it twice in a row,      *)
(* SpecInteractive runs redeploy_interactive's deploy and SpecVariants     *)
(* that of any of the four scripts; SpecCalls, SpecPoll and                *)
(* SpecManager call single functions on their own: the validating          *)
(* functions of redeploy_auto, wait_for_http_ok request by request, and    *)
(* the methods of utils/deployment_manager.py.                             *)
(***************************************************************************)
EXTENDS Integers, Sequences, FiniteSets, TLC

\* ---------------------------------------------------------------- bounds
MaxIntensity == 2      \* finite carbon intensities are 1..MaxIntensity
MaxInst == 2           \* tagged instances running per region before a run
MaxSG == 1             \* myapp_sg_* security groups a region holds

\* ------------------------------------------------------------- constants
\* AWS_REGIONS, a dict: its keys in insertion order
AWS_REGIONS == <<"eu-west-1", "eu-west-2", "eu-central-1">>

RegionKeys == {AWS_REGIONS[i] : i \in 1..Len(AWS_REGIONS)}

\* the default region of the fallback
DEFAULT_REGION == "eu-west-2"

\* float("inf"): above every finite intensity
Inf == MaxIntensity + 1

\* wait_for_http_ok's default max_attempts
DEFAULT_MAX_ATTEMPTS == 20

\* arguments a caller can pass for a region, one of them no key of AWS_REGIONS
RegionInputs == RegionKeys \cup {"invalid-region"}

InstIds == 1..MaxInst
\* the instance terraform apply creates
NEW_INSTANCE == MaxInst + 1
\* an id of no instance ("i-invalid")
INVALID_INSTANCE == MaxInst + 2
\* the myapp_sg_* groups a region can hold when they are listed
SgListings == {1..n : n \in 0..MaxSG}

NoFile == [aws_region |-> "", deployment_id |-> 0]
NoCall == [fn |-> "", region |-> "", id |-> 0]

\* ---------------------------------------------------------------- helpers
RECURSIVE SortedSeq(_)
\* the ids of S as the CLI lists them
SortedSeq(S) ==
    IF S = {} THEN <<>>
    ELSE LET m == CHOOSE x \in S : \A y \in S : x <= y
         IN <<m>> \o SortedSeq(S \ {m})

\* a state-changing command issued, with its exit status (ok: exit status 0)
Cmd(c, region, id, ok) == [cmd |-> c, region |-> region, id |-> id, ok |-> ok]

\* a read-only command issued; its exit status shows in what the caller got
Issued(c, region) == [cmd |-> c, region |-> region, id |-> 0, ok |-> TRUE]

\* a command issued whose exit status the script only prints
IssuedFor(c, region, id) == [cmd |-> c, region |-> region, id |-> id, ok |-> TRUE]

\* ------------------------------------------------- carbon intensity
\* what one ElectricityMaps request can give
Responses ==
    {[kind |-> "json", carbonIntensity |-> v] : v \in 1..MaxIntensity}
    \cup {[kind |-> "nokey", carbonIntensity |-> 0],
          [kind |-> "error", carbonIntensity |-> 0]}

get_carbon_intensity(auth_token, resp) ==
    IF ~auth_token THEN Inf
    ELSE IF resp.kind = "error" THEN Inf
    ELSE IF resp.kind = "nokey" THEN Inf
    ELSE resp.carbonIntensity

RECURSIVE MinScan(_, _, _)
\* Python's min(d, key=d.get): a linear scan that keeps the first minimum
MinScan(data, i, best) ==
    IF i > Len(AWS_REGIONS) THEN best
    ELSE MinScan(data, i + 1,
                 IF data[AWS_REGIONS[i]] < data[best] THEN AWS_REGIONS[i] ELSE best)

RECURSIVE MinScanLast(_, _, _)
\* a scan that keeps the last minimum (<= for <)
MinScanLast(data, i, best) ==
    IF i > Len(AWS_REGIONS) THEN best
    ELSE MinScanLast(data, i + 1,
                     IF data[AWS_REGIONS[i]] <= data[best] THEN AWS_REGIONS[i] ELSE best)

min_region_last(data) == MinScanLast(data, 2, AWS_REGIONS[1])

\* min(carbon_data, key=carbon_data.get)
min_region(data) == MinScan(data, 2, AWS_REGIONS[1])

\* deploy's api_accessible after the query loop
ApiAccessible(data) == \A r \in RegionKeys : data[r] # Inf

\* no fallback: the minimum whatever the API gave
choose_region_no_fallback(data) == min_region(data)

\* find_best_region with the last of the minimal regions kept
find_best_region_last(data) == min_region_last(data)

\* find_best_region: min(carbon_data, key=carbon_data.get) over the three
\* results, a failure's infinity included; no fallback
find_best_region(data) == MinScan(data, 2, AWS_REGIONS[1])

\* deploy, step 1: the region to deploy to
choose_region(data) ==
    IF ~ApiAccessible(data) THEN DEFAULT_REGION ELSE min_region(data)

\* ------------------------------------------------- functions of redeploy_auto
\* get_old_instances: the running tagged instances of a region, [] when the
\* describe-instances command fails
get_old_instances(region, run, describeOk) ==
    IF describeOk THEN run[region] ELSE {}

\* the membership test on the wrong key: the first region's entry
already_deployed_first(region, found) == found[AWS_REGIONS[1]] # {}

\* deploy, "if best_region in deployments"
already_deployed(region, found) == found[region] # {}

\* update_tfvars without the region validation
update_tfvars_unchecked(region, file, t) ==
    [exc |-> "none",
     tfvars |-> [aws_region |-> region, deployment_id |-> t]]

\* update_tfvars: the outcome of a call at time t on the file as it is
update_tfvars(region, file, t) ==
    IF region \notin RegionKeys
    THEN [exc |-> "ValueError", tfvars |-> file]
    ELSE [exc |-> "none",
          tfvars |-> [aws_region |-> region, deployment_id |-> t]]

\* terminate_instance with check=False on the first command: the wait is issued
\* whatever terminate-instances returned
terminate_instance_then_wait(instance_id, region, run, termOk, waitOk) ==
    LET ok == termOk /\ region \in RegionKeys /\ instance_id \in run[region]
    IN [exc |-> IF ok /\ waitOk THEN "none" ELSE "CalledProcessError",
        running |-> IF ok THEN [run EXCEPT ![region] = @ \ {instance_id}] ELSE run,
        cmds |-> {Cmd("terminate-instances", region, instance_id, ok),
                  Cmd("wait instance-terminated", region, instance_id, ok /\ waitOk)}]

\* terminate_instance: both commands run with check=True. terminate-instances
\* exits non-zero for an id that is no running instance of the region
terminate_instance(instance_id, region, run, termOk, waitOk) ==
    LET ok == termOk /\ region \in RegionKeys /\ instance_id \in run[region]
    IN [exc |-> IF ok /\ waitOk THEN "none" ELSE "CalledProcessError",
        running |-> IF ok THEN [run EXCEPT ![region] = @ \ {instance_id}] ELSE run,
        cmds |-> {Cmd("terminate-instances", region, instance_id, ok)}
                 \cup (IF ok
                       THEN {Cmd("wait instance-terminated", region, instance_id, waitOk)}
                       ELSE {})]

\* find_old_sgs: the ids of the groups the region holds, [] when
\* describe-security-groups fails
find_old_sgs(region, groups, describeOk) ==
    IF describeOk /\ region \in RegionKeys THEN SortedSeq(groups) ELSE <<>>

\* remove_security_groups from "sg_ids = find_old_sgs(region)" on: of the
\* listed groups the first nDel deletions succeed, the next one (if any) exits
\* non-zero and raises
delete_listed(region, groups, describeOk, nDel) ==
    LET listed == find_old_sgs(region, groups, describeOk)
        n == Len(listed)
        k == IF nDel < n THEN nDel ELSE n
    IN [exc |-> IF k < n THEN "CalledProcessError" ELSE "none",
        cmds |-> {Issued("describe-security-groups", region)}
                 \cup {Cmd("delete-security-group", region, listed[j], j <= k)
                       : j \in 1..(IF k < n THEN k + 1 ELSE n)}]

\* remove_security_groups without the region validation
remove_security_groups_unchecked(region, groups, describeOk, nDel) ==
    delete_listed(region, groups, describeOk, nDel)

\* remove_security_groups
remove_security_groups(region, groups, describeOk, nDel) ==
    IF region \notin RegionKeys
    THEN [exc |-> "ValueError", cmds |-> {}]
    ELSE delete_listed(region, groups, describeOk, nDel)

\* cleanup_security_groups: CalledProcessError is caught and reported
cleanup_security_groups(region, groups, d1, d2, nDel) ==
    IF find_old_sgs(region, groups, d1) # <<>>
    THEN LET res == remove_security_groups(region, groups, d2, nDel)
         IN [exc |-> IF res.exc = "CalledProcessError" THEN "none" ELSE res.exc,
             cmds |-> {Issued("describe-security-groups", region)} \cup res.cmds,
             out |-> IF res.exc = "CalledProcessError"
                     THEN {"Failed to remove security groups"} ELSE {}]
    ELSE [exc |-> "none",
          cmds |-> {Issued("describe-security-groups", region)},
          out |-> {"No security groups found to clean up"}]

\* get_terraform_output: subprocess.run(..., check=True), then
\* "result.stdout.strip() or None"
get_terraform_output(res) ==
    IF res = "failed" THEN [exc |-> "CalledProcessError", value |-> "None"]
    ELSE IF res = "empty" THEN [exc |-> "none", value |-> "None"]
    ELSE [exc |-> "none", value |-> "value"]

RECURSIVE Poll(_, _, _)
\* wait_for_http_ok's loop from attempt on: True at the first 200
Poll(resp, attempt, max_attempts) ==
    IF attempt > max_attempts THEN FALSE
    ELSE IF resp[attempt] = "200" THEN TRUE
    ELSE Poll(resp, attempt + 1, max_attempts)

\* the health check taken as passed without polling
wait_for_http_ok_always(resp, max_attempts) == TRUE

\* wait_for_http_ok
wait_for_http_ok(resp, max_attempts) == Poll(resp, 1, max_attempts)

\* an instance that answers 200 from request number first200 on (never, for 0),
\* a 503 or a connection error before
AnswersFrom(first200, max_attempts) ==
    [a \in 1..max_attempts |->
        IF first200 # 0 /\ a >= first200 THEN "200"
        ELSE IF a % 2 = 0 THEN "exception" ELSE "503"]

\* the requests at which the new instance can start to answer 200: never, at
\* once, at the last attempt, after the last attempt
FirstAnswers == {0, 1, DEFAULT_MAX_ATTEMPTS, DEFAULT_MAX_ATTEMPTS + 1}

\* the instance answered 200 to one of the max_attempts requests
Answered(first200, max_attempts) == first200 >= 1 /\ first200 <= max_attempts

\* cleanup_old_instances' two loops as one list: the (region, instance) pairs
\* in the order they are terminated
CleanupPlan(old_deployments, current_region) ==
    LET part(i) ==
          LET r == AWS_REGIONS[i]
              ids == SortedSeq(old_deployments[r])
          IN IF r = current_region THEN <<>>
             ELSE [j \in 1..Len(ids) |-> [region |-> r, id |-> ids[j]]]
    IN part(1) \o part(2) \o part(3)

\* ------------------------------------------------------------------ state
VARIABLES
    script,          \* the script that runs
    pc,              \* where the run is
    exc,             \* the exception that ended the run or the call, or "none"
    token,           \* AUTH_TOKEN is set
    dns_configured,  \* MYAPP_DOMAIN and HOSTED_ZONE_ID are set
    carbon_data,     \* deploy's local: region -> intensity
    api_accessible,  \* deploy's local
    best_region,     \* deploy's local: the region chosen
    deployments,     \* deploy's local: region -> instances found running
    step,            \* the loop position in the cleanup
    tfvars,          \* terraform/terraform.tfvars
    now,             \* time.time()
    running,         \* cloud: region -> running instances tagged myapp-instance
    dns_record,      \* cloud: where the A record points
    cmds,            \* the state-changing commands the run has issued
    out,             \* what the run has printed
    http_200,        \* the new instance answered 200 to a request the run made
    call,            \* the function a test harness called directly
    poll,            \* wait_for_http_ok called on its own: its arguments and locals
    ret,             \* what the function called on its own returned
    state_file,      \* terraform/terraform.tfstate
    snapshot_file,   \* the file create_deployment_snapshot wrote under backups/
    taken,           \* terraform/terraform.tfstate as it was when the snapshot was made
    checks,          \* pre_deployment_checks' local: the four results
    typed,           \* the line read last at redeploy_interactive's (y/n) prompt
    run_no,          \* the number of the run of the script: 1, then 2
    queried          \* what the API answers per region to this run and the next

vars == <<script, pc, exc, token, dns_configured, carbon_data, api_accessible,
          best_region, deployments, step, tfvars, now, running, dns_record,
          cmds, out, http_200, call, poll, ret, state_file, snapshot_file,
          taken, checks, typed, run_no, queried>>

config == <<script, token, dns_configured>>
locals == <<carbon_data, api_accessible, best_region, deployments, step>>
cloud == <<running, dns_record>>
manager == <<state_file, snapshot_file, taken, checks>>
standalone == <<poll, ret, manager>>
repeat == <<run_no, queried>>

OutOfScope == [r \in RegionKeys |-> 0]
NoPoll == [max_attempts |-> 0, attempt |-> 0, sent |-> 0, server |-> <<>>]
JsonNull == [type |-> "null", n |-> 0]
NoStateFile == [kind |-> "absent", fmt |-> "", value |-> JsonNull]
NoChecks == <<>>
NoAnswer == [kind |-> "error", carbonIntensity |-> 0]
NotQueried == [r \in RegionKeys |-> NoAnswer]
NoneFound == [r \in RegionKeys |-> {}]

\* the cloud and the configuration a run can meet
Worlds == {[r \in RegionKeys |-> 1..n[r]] : n \in [RegionKeys -> 0..MaxInst]}

InitWorld ==
    /\ token \in BOOLEAN
    /\ dns_configured \in BOOLEAN
    /\ running \in Worlds
    /\ dns_record = "old"
    /\ tfvars = NoFile
    /\ now = 1

InitRun ==
    /\ exc = "none"
    /\ carbon_data = OutOfScope
    /\ api_accessible = TRUE
    /\ best_region = ""
    /\ deployments = NoneFound
    /\ step = 0
    /\ cmds = {}
    /\ out = {}
    /\ http_200 = FALSE
    /\ call = NoCall
    /\ poll = NoPoll
    /\ ret = "none"
    /\ state_file = NoStateFile
    /\ snapshot_file = NoStateFile
    /\ taken = NoStateFile
    /\ checks = NoChecks
    /\ typed = <<>>
    /\ run_no = 1
    /\ queried = NotQueried

Init ==
    /\ script = "redeploy_auto"
    /\ pc = "deploy"
    /\ InitWorld
    /\ InitRun

\* --------------------------------------------------- redeploy_auto.deploy
\* deploy, "1. Get carbon intensities and show recommendations"
deploy_select ==
    /\ script = "redeploy_auto"
    /\ pc = "deploy"
    /\ \E resp \in [RegionKeys -> Responses] :
         LET data == [r \in RegionKeys |-> get_carbon_intensity(token, resp[r])]
         IN /\ carbon_data' = data
            /\ api_accessible' = ApiAccessible(data)
            /\ best_region' = choose_region(data)
            /\ out' = out \cup (IF ApiAccessible(data)
                                THEN {"Recommended AWS Region"}
                                ELSE {"API ACCESS ERROR"})
    /\ pc' = "check"
    /\ UNCHANGED <<config, exc, deployments, step, tfvars, now, cloud, cmds, http_200, call, standalone, typed, repeat>>

\* deploy, "2. Check existing deployments" up to the call of deploy_to_region;
\* carbon_data is not read after this step and leaves the state
deploy_check ==
    /\ script = "redeploy_auto"
    /\ pc = "check"
    /\ \E failed \in SUBSET RegionKeys :
         LET found == [r \in RegionKeys |->
                          get_old_instances(r, running, r \notin failed)]
         IN /\ deployments' = found
            /\ IF already_deployed(best_region, found)
               THEN /\ out' = out \cup {"No need to redeploy"}
                    /\ pc' = "done"
               ELSE /\ out' = out \cup
                         (IF found = NoneFound THEN {}
                          ELSE IF api_accessible
                               THEN {"Lower carbon region detected"}
                               ELSE {"Default region"})
                    /\ pc' = "update_tfvars"
    /\ carbon_data' = OutOfScope
    /\ UNCHANGED <<config, exc, api_accessible, best_region, step, tfvars, now,
                   cloud, cmds, http_200, call, standalone, typed, repeat>>

\* deploy_to_region: update_tfvars(region)
deploy_update_tfvars ==
    /\ script = "redeploy_auto"
    /\ pc = "update_tfvars"
    /\ LET res == update_tfvars(best_region, tfvars, now)
       IN /\ tfvars' = res.tfvars
          /\ exc' = res.exc
          /\ now' = IF res.exc = "none" THEN now + 1 ELSE now
          /\ pc' = IF res.exc = "none" THEN "run_terraform" ELSE "done"
    /\ UNCHANGED <<config, locals, cloud, cmds, out, http_200, call, standalone, typed, repeat>>

\* run_terraform: terraform init, then terraform apply, both with check=True
run_terraform ==
    /\ script = "redeploy_auto"
    /\ pc = "run_terraform"
    /\ \E res \in {"ok", "init failed", "apply failed"} :
         /\ cmds' = cmds \cup
              (IF res = "init failed" THEN {}
               ELSE {Cmd("terraform apply", best_region, 0, res = "ok")})
         /\ running' = IF res = "ok"
                       THEN [running EXCEPT ![best_region] = @ \cup {NEW_INSTANCE}]
                       ELSE running
         /\ exc' = IF res = "ok" THEN "none" ELSE "CalledProcessError"
         /\ pc' = IF res = "ok" THEN "terraform_output" ELSE "done"
    /\ UNCHANGED <<config, locals, tfvars, now, dns_record, out, http_200, call, standalone, typed, repeat>>

\* deploy_to_region, "Check deployment success"
deploy_terraform_output ==
    /\ script = "redeploy_auto"
    /\ pc = "terraform_output"
    /\ \E r1, r2 \in {"value", "empty", "failed"} :
         LET instance_ip == get_terraform_output(r1)
             instance_id == get_terraform_output(r2)
         IN IF instance_ip.exc # "none" \/ instance_id.exc # "none"
            THEN /\ exc' = "CalledProcessError"
                 /\ pc' = "done"
                 /\ out' = out
            ELSE IF instance_ip.value = "None" \/ instance_id.value = "None"
            THEN /\ out' = out \cup {"Failed to get instance details"}
                 /\ pc' = "done"
                 /\ exc' = exc
            ELSE /\ pc' = "wait_for_http_ok"
                 /\ UNCHANGED <<out, exc>>
    /\ UNCHANGED <<config, locals, tfvars, now, cloud, cmds, http_200, call, standalone, typed, repeat>>

\* deploy_to_region, "Wait for HTTP check to complete"
deploy_health_check ==
    /\ script = "redeploy_auto"
    /\ pc = "wait_for_http_ok"
    /\ \E first200 \in FirstAnswers :
         /\ http_200' = Answered(first200, DEFAULT_MAX_ATTEMPTS)
         /\ IF wait_for_http_ok(AnswersFrom(first200, DEFAULT_MAX_ATTEMPTS + 1),
                                DEFAULT_MAX_ATTEMPTS)
            THEN /\ out' = out \cup {"HTTP check succeeded"}
                 /\ pc' = "update_dns"
            ELSE /\ out' = out \cup {"New instance failed health check"}
                 /\ pc' = "done"
    /\ UNCHANGED <<config, exc, locals, tfvars, now, cloud, cmds, call, standalone, typed, repeat>>

\* deploy_to_region from the DNS configuration test to the start of the cleanup
deploy_update_dns ==
    /\ script = "redeploy_auto"
    /\ pc = "update_dns"
    /\ IF ~dns_configured
       THEN /\ out' = out \cup {"Skipping DNS update"}
            /\ pc' = "done"
            /\ UNCHANGED <<exc, dns_record, cmds, step>>
       ELSE \E ok \in BOOLEAN :
            /\ cmds' = cmds \cup {Cmd("change-resource-record-sets", best_region, 0, ok)}
            /\ IF ~ok
               THEN /\ exc' = "CalledProcessError"
                    /\ pc' = "done"
                    /\ UNCHANGED <<dns_record, out, step>>
               ELSE /\ dns_record' = best_region
                    /\ exc' = exc
                    /\ IF deployments # NoneFound
                       THEN /\ out' = out \cup {"Redeployment complete"}
                            /\ pc' = "terminate_instance"
                            /\ step' = 1
                       ELSE /\ out' = out \cup {"Redeployment complete",
                                                "No old instances found to clean up"}
                            /\ pc' = "handle_no_old_instances"
                            /\ step' = 1
    /\ UNCHANGED <<config, carbon_data, api_accessible, best_region, deployments,
                   tfvars, now, running, http_200, call, standalone, typed, repeat>>

\* cleanup_old_instances: terminate_instance(inst_id, old_region)
cleanup_terminate_instance ==
    /\ script = "redeploy_auto"
    /\ pc = "terminate_instance"
    /\ LET plan == CleanupPlan(deployments, best_region)
       IN \E termOk, waitOk \in BOOLEAN :
            LET res == terminate_instance(plan[step].id, plan[step].region,
                                          running, termOk, waitOk)
            IN /\ running' = res.running
               /\ cmds' = cmds \cup res.cmds
               /\ exc' = res.exc
               /\ pc' = IF res.exc = "none" THEN "cleanup_security_groups" ELSE "done"
    /\ UNCHANGED <<config, locals, tfvars, now, dns_record, out, http_200, call, standalone, typed, repeat>>

\* cleanup_old_instances: cleanup_security_groups(old_region), then the next
\* instance or the end of deploy_to_region
cleanup_sgs ==
    /\ script = "redeploy_auto"
    /\ pc = "cleanup_security_groups"
    /\ LET plan == CleanupPlan(deployments, best_region)
       IN \E groups \in SgListings, d1, d2 \in BOOLEAN, nDel \in 0..MaxSG :
            LET res == cleanup_security_groups(plan[step].region, groups, d1, d2, nDel)
            IN /\ cmds' = cmds \cup res.cmds
               /\ exc' = res.exc
               /\ IF res.exc # "none"
                  THEN /\ pc' = "done"
                       /\ out' = out \cup res.out
                       /\ step' = step
                  ELSE IF step < Len(plan)
                  THEN /\ pc' = "terminate_instance"
                       /\ out' = out \cup res.out
                       /\ step' = step + 1
                  ELSE /\ pc' = "done"
                       /\ out' = out \cup res.out \cup {"Cleanup complete"}
                       /\ step' = step
    /\ UNCHANGED <<config, carbon_data, api_accessible, best_region, deployments,
                   tfvars, now, running, dns_record, http_200, call, standalone, typed, repeat>>

\* handle_no_old_instances: one region of its loop, and its end
handle_no_old_instances ==
    /\ script = "redeploy_auto"
    /\ pc = "handle_no_old_instances"
    /\ LET region == AWS_REGIONS[step]
       IN \E groups \in SgListings, d1, d2 \in BOOLEAN, nDel \in 0..MaxSG :
            LET old_sgs == find_old_sgs(region, groups, d1)
                res == remove_security_groups(region, groups, d2, nDel)
                seen == IF old_sgs = <<>> THEN {}
                        ELSE {"Found security groups"}
                          \cup (IF res.exc = "CalledProcessError"
                                THEN {"Failed to remove security groups"} ELSE {})
                last == step = Len(AWS_REGIONS)
            IN /\ cmds' = cmds \cup {Issued("describe-security-groups", region)}
                               \cup (IF old_sgs = <<>> THEN {} ELSE res.cmds)
               /\ out' = out \cup seen \cup
                    (IF last /\ "Found security groups" \notin (out \cup seen)
                     THEN {"No security groups found to clean up in any region"}
                     ELSE {})
               /\ pc' = IF last THEN "done" ELSE pc
               /\ step' = IF last THEN step ELSE step + 1
    /\ UNCHANGED <<config, exc, carbon_data, api_accessible, best_region,
                   deployments, tfvars, now, running, dns_record, http_200, call, standalone, typed, repeat>>

NextAuto ==
    \/ deploy_select
    \/ deploy_check
    \/ deploy_update_tfvars
    \/ run_terraform
    \/ deploy_terraform_output
    \/ deploy_health_check
    \/ deploy_update_dns
    \/ cleanup_terminate_instance
    \/ cleanup_sgs
    \/ handle_no_old_instances

Next == NextAuto

Spec == Init /\ [][Next]_vars

\* ------------------------------------------------------------- user input
\* a line typed at a prompt is a sequence of pieces: blanks " " and blank-free
\* texts (single characters where a number is read)
RECURSIVE lstrip(_)
lstrip(s) == IF s # <<>> /\ Head(s) = " " THEN lstrip(Tail(s)) ELSE s

RECURSIVE rstrip(_)
rstrip(s) ==
    IF s # <<>> /\ s[Len(s)] = " " THEN rstrip(SubSeq(s, 1, Len(s) - 1)) ELSE s

\* str.strip()
strip(s) == rstrip(lstrip(s))

\* str.lower() on the texts that are typed
lower(s) ==
    [i \in 1..Len(s) |->
        CASE s[i] = "Y" -> "y"
          [] s[i] = "YES" -> "yes"
          [] s[i] = "Yes" -> "yes"
          [] s[i] = "N" -> "n"
          [] s[i] = "NO" -> "no"
          [] s[i] = "No" -> "no"
          [] OTHER -> s[i]]

Digits == <<"0", "1", "2", "3", "4", "5", "6", "7", "8", "9">>
IsDigit(c) == \E i \in 1..Len(Digits) : Digits[i] = c
DigitValue(c) == (CHOOSE i \in 1..Len(Digits) : Digits[i] = c) - 1

RECURSIVE Decimal(_, _)
Decimal(s, acc) ==
    IF s = <<>> THEN acc ELSE Decimal(Tail(s), 10 * acc + DigitValue(Head(s)))

\* int(line): surrounding blanks dropped, an optional sign, then digits only;
\* ValueError for anything else
int(s) ==
    LET t == strip(s)
        signed == t # <<>> /\ Head(t) \in {"+", "-"}
        d == IF signed THEN Tail(t) ELSE t
    IN IF d = <<>> \/ \E i \in 1..Len(d) : ~IsDigit(d[i])
       THEN [exc |-> "ValueError", value |-> 0]
       ELSE [exc |-> "none",
             value |-> IF signed /\ Head(t) = "-" THEN 0 - Decimal(d, 0)
                       ELSE Decimal(d, 0)]

\* lines typed at "Select region number"
NumberLines ==
    {<<"1">>, <<" ", "2", " ">>, <<"+", "3">>, <<"0">>, <<"4">>, <<"1", "0">>,
     <<"-", "1">>, <<"a">>, <<"2", " ", "3">>, <<>>}

\* lines typed at a (y/n) prompt
AnswerLines ==
    {<<"y">>, <<"YES">>, <<" ", "n">>, <<"No", " ">>, <<"maybe">>, <<"y", " ", "n">>, <<>>}

\* lines typed at "Enter a region to override the recommendation"
RegionLines ==
    {<<>>, <<" ">>, <<"eu-west-1">>, <<"eu-west-2">>, <<" ", "eu-central-1", " ">>,
     <<"invalid-region">>, <<"EU-WEST-1">>, <<"eu-west-1", " ", "eu-west-2">>}

\* ----------------------------------------- functions of redeploy_interactive
\* (names of redeploy_interactive.py carry the prefix I_)
\* get_carbon_intensity: no token test; inf on a request error or a missing key
I_get_carbon_intensity(resp) ==
    IF resp.kind = "json" THEN resp.carbonIntensity ELSE Inf

I_get_old_instances(region, run, describeOk) ==
    IF describeOk THEN run[region] ELSE {}

\* update_tfvars: the region is written as given
I_update_tfvars(region, file, t) ==
    [exc |-> "none", tfvars |-> [aws_region |-> region, deployment_id |-> t]]

\* terminate_instance: both commands run with check=True
I_terminate_instance(instance_id, region, run, termOk, waitOk) ==
    LET ok == termOk /\ region \in RegionKeys /\ instance_id \in run[region]
    IN [exc |-> IF ok /\ waitOk THEN "none" ELSE "CalledProcessError",
        running |-> IF ok THEN [run EXCEPT ![region] = @ \ {instance_id}] ELSE run,
        cmds |-> {Cmd("terminate-instances", region, instance_id, ok)}
                 \cup (IF ok
                       THEN {Cmd("wait instance-terminated", region, instance_id, waitOk)}
                       ELSE {})]

I_find_old_sgs(region, groups, describeOk) ==
    IF describeOk /\ region \in RegionKeys THEN SortedSeq(groups) ELSE <<>>

\* remove_security_groups: no region test; each deletion runs with check=True,
\* so the first one that exits non-zero raises
I_remove_security_groups(region, groups, describeOk, nDel) ==
    LET listed == I_find_old_sgs(region, groups, describeOk)
        n == Len(listed)
        k == IF nDel < n THEN nDel ELSE n
    IN [exc |-> IF k < n THEN "CalledProcessError" ELSE "none",
        cmds |-> {Issued("describe-security-groups", region)}
                 \cup {Cmd("delete-security-group", region, listed[j], j <= k)
                       : j \in 1..(IF k < n THEN k + 1 ELSE n)}]

\* get_terraform_output: check=True, then "result.stdout.strip() or None"
I_get_terraform_output(res) ==
    IF res = "failed" THEN [exc |-> "CalledProcessError", value |-> "None"]
    ELSE IF res = "empty" THEN [exc |-> "none", value |-> "None"]
    ELSE [exc |-> "none", value |-> "value"]

I_wait_for_http_ok(resp, max_attempts) == Poll(resp, 1, max_attempts)

\* get_user_confirmation with yes as the default: anything but n / no is True
get_user_confirmation_default_yes(line) ==
    LET response == strip(lower(line))
    IN IF response \in {<<"n">>, <<"no">>} THEN "False" ELSE "True"

\* get_user_confirmation, one turn of its loop: True, False, or ask again
get_user_confirmation(line) ==
    LET response == strip(lower(line))
    IN IF response \in {<<"y">>, <<"yes">>} THEN "True"
       ELSE IF response \in {<<"n">>, <<"no">>} THEN "False"
       ELSE "again"

\* get_region_choice, one turn of its loop: the choice returned, or 0 and the
\* message printed before it asks again
get_region_choice(line, max_regions) ==
    LET n == int(line)
    IN IF n.exc = "ValueError"
       THEN [choice |-> 0, out |-> "Please enter a valid number"]
       ELSE IF 1 <= n.value /\ n.value <= max_regions
       THEN [choice |-> n.value, out |-> ""]
       ELSE [choice |-> 0, out |-> "Please enter a number between 1 and 3"]

\* ------------------------------------------- redeploy_interactive.deploy
\* deploy, steps 1 and 2: intensities, recommendation, existing deployments;
\* best_region is the recommendation printed, until the user's choice
I_deploy_query ==
    /\ script = "redeploy_interactive"
    /\ pc = "deploy"
    /\ \E resp \in [RegionKeys -> Responses], failed \in SUBSET RegionKeys :
         LET data == [r \in RegionKeys |-> I_get_carbon_intensity(resp[r])]
         IN /\ best_region' = min_region(data)
            /\ deployments' = [r \in RegionKeys |->
                                  I_get_old_instances(r, running, r \notin failed)]
    /\ out' = out \cup {"Recommended AWS Region"}
    /\ pc' = "get_user_confirmation"
    /\ UNCHANGED <<config, exc, carbon_data, api_accessible, step, tfvars, now,
                   cloud, cmds, http_200, call, standalone, typed, repeat>>

\* deploy, step 3: one answer to "Would you like to deploy/redeploy an instance?"
I_confirm ==
    /\ script = "redeploy_interactive"
    /\ pc = "get_user_confirmation"
    /\ \E line \in AnswerLines :
         LET answer == get_user_confirmation(line)
         IN /\ pc' = IF answer = "True" THEN "get_region_choice"
                     ELSE IF answer = "False" THEN "done"
                     ELSE pc
            /\ out' = out \cup (IF answer = "again"
                                THEN {"Please answer 'y' or 'n'"} ELSE {})
            /\ typed' = line
    /\ UNCHANGED <<config, exc, locals, tfvars, now, cloud, cmds, http_200, call, standalone,
                   repeat>>

\* deploy, step 4: one line typed at "Select region number"
I_choose_region ==
    /\ script = "redeploy_interactive"
    /\ pc = "get_region_choice"
    /\ \E line \in NumberLines :
         LET got == get_region_choice(line, Len(AWS_REGIONS))
         IN IF got.choice = 0
            THEN /\ out' = out \cup {got.out}
                 /\ UNCHANGED <<pc, best_region>>
            ELSE /\ best_region' = AWS_REGIONS[got.choice]
                 /\ out' = out \cup (IF deployments # NoneFound
                                     THEN {"Lower carbon region detected"} ELSE {})
                 /\ pc' = "update_tfvars"
    /\ UNCHANGED <<config, exc, carbon_data, api_accessible, deployments, step,
                   tfvars, now, cloud, cmds, http_200, call, standalone, typed, repeat>>

\* deploy_to_region: update_tfvars(region), run_terraform(region)
I_provision ==
    /\ script = "redeploy_interactive"
    /\ pc = "update_tfvars"
    /\ tfvars' = I_update_tfvars(best_region, tfvars, now).tfvars
    /\ now' = now + 1
    /\ \E res \in {"ok", "init failed", "apply failed"} :
         /\ cmds' = cmds \cup
              (IF res = "init failed" THEN {}
               ELSE {Cmd("terraform apply", best_region, 0, res = "ok")})
         /\ running' = IF res = "ok"
                       THEN [running EXCEPT ![best_region] = @ \cup {NEW_INSTANCE}]
                       ELSE running
         /\ exc' = IF res = "ok" THEN exc ELSE "CalledProcessError"
         /\ pc' = IF res = "ok" THEN "get_terraform_output" ELSE "done"
    /\ UNCHANGED <<config, locals, dns_record, out, http_200, call, standalone, typed, repeat>>

\* deploy_to_region, "Check deployment success": the two outputs
I_terraform_outputs ==
    /\ script = "redeploy_interactive"
    /\ pc = "get_terraform_output"
    /\ \E res_ip, res_id \in {"value", "empty", "failed"} :
         LET instance_ip == I_get_terraform_output(res_ip)
             instance_id == I_get_terraform_output(res_id)
         IN IF instance_ip.exc # "none"
            THEN exc' = instance_ip.exc /\ pc' = "done" /\ out' = out
            ELSE IF instance_ip.value = "None"
            THEN exc' = exc /\ pc' = "done"
                 /\ out' = out \cup {"Failed to get instance IP"}
            ELSE IF instance_id.exc # "none"
            THEN exc' = instance_id.exc /\ pc' = "done" /\ out' = out
            ELSE IF instance_id.value = "None"
            THEN exc' = exc /\ pc' = "done"
                 /\ out' = out \cup {"Failed to get instance ID"}
            ELSE exc' = exc /\ pc' = "wait_for_http_ok" /\ out' = out
    /\ UNCHANGED <<config, locals, tfvars, now, cloud, cmds, http_200, call, standalone, typed, repeat>>

\* deploy_to_region: "if not wait_for_http_ok(instance_ip)"
I_health_check ==
    /\ script = "redeploy_interactive"
    /\ pc = "wait_for_http_ok"
    /\ \E first200 \in FirstAnswers :
         /\ http_200' = Answered(first200, DEFAULT_MAX_ATTEMPTS)
         /\ IF I_wait_for_http_ok(AnswersFrom(first200, DEFAULT_MAX_ATTEMPTS + 1),
                                  DEFAULT_MAX_ATTEMPTS)
            THEN /\ out' = out \cup {"HTTP check succeeded"}
                 /\ pc' = "update_dns"
            ELSE /\ out' = out \cup {"New instance failed health check"}
                 /\ pc' = "done"
    /\ UNCHANGED <<config, exc, locals, tfvars, now, cloud, cmds, call, standalone, typed, repeat>>

\* deploy_to_region from the DNS configuration test to the start of the cleanup
I_update_dns ==
    /\ script = "redeploy_interactive"
    /\ pc = "update_dns"
    /\ IF ~dns_configured
       THEN /\ out' = out \cup {"Skipping DNS update"}
            /\ pc' = "done"
            /\ UNCHANGED <<exc, dns_record, cmds, step>>
       ELSE \E ok \in BOOLEAN :
            /\ cmds' = cmds \cup {Cmd("change-resource-record-sets", best_region, 0, ok)}
            /\ IF ~ok
               THEN /\ exc' = "CalledProcessError"
                    /\ pc' = "done"
                    /\ UNCHANGED <<dns_record, out, step>>
               ELSE /\ dns_record' = best_region
                    /\ exc' = exc
                    /\ IF deployments = NoneFound
                       THEN /\ out' = out \cup {"Redeployment complete",
                                                "No old instances found to clean up"}
                            /\ pc' = "done"
                            /\ step' = step
                       ELSE IF CleanupPlan(deployments, best_region) = <<>>
                       THEN /\ out' = out \cup {"Redeployment complete",
                                                "Cleanup complete"}
                            /\ pc' = "done"
                            /\ step' = step
                       ELSE /\ out' = out \cup {"Redeployment complete"}
                            /\ pc' = "cleanup"
                            /\ step' = 1
    /\ UNCHANGED <<config, carbon_data, api_accessible, best_region, deployments,
                   tfvars, now, running, http_200, call, standalone, typed, repeat>>

\* deploy_to_region's cleanup loop, one instance: terminate_instance(inst_id,
\* old_region), then remove_security_groups(old_region)
I_cleanup_step ==
    /\ script = "redeploy_interactive"
    /\ pc = "cleanup"
    /\ LET plan == CleanupPlan(deployments, best_region)
       IN \E termOk, waitOk, describeOk \in BOOLEAN, groups \in SgListings,
             nDel \in 0..MaxSG :
            LET t == I_terminate_instance(plan[step].id, plan[step].region,
                                          running, termOk, waitOk)
                s == I_remove_security_groups(plan[step].region, groups,
                                              describeOk, nDel)
            IN /\ running' = t.running
               /\ IF t.exc # "none"
                  THEN /\ cmds' = cmds \cup t.cmds
                       /\ exc' = t.exc
                       /\ pc' = "done"
                       /\ UNCHANGED <<out, step>>
                  ELSE /\ cmds' = cmds \cup t.cmds \cup s.cmds
                       /\ exc' = s.exc
                       /\ IF s.exc # "none"
                          THEN pc' = "done" /\ UNCHANGED <<out, step>>
                          ELSE IF step < Len(plan)
                          THEN pc' = pc /\ step' = step + 1 /\ out' = out
                          ELSE /\ pc' = "done"
                               /\ step' = step
                               /\ out' = out \cup {"Cleanup complete"}
    /\ UNCHANGED <<config, carbon_data, api_accessible, best_region, deployments,
                   tfvars, now, dns_record, http_200, call, standalone, typed, repeat>>

NextInteractive ==
    \/ I_deploy_query
    \/ I_confirm
    \/ I_choose_region
    \/ I_provision
    \/ I_terraform_outputs
    \/ I_health_check
    \/ I_update_dns
    \/ I_cleanup_step

\* redeploy_interactive run on its own; it reads no AUTH_TOKEN test
InitInteractive ==
    /\ script = "redeploy_interactive"
    /\ pc = "deploy"
    /\ InitWorld
    /\ token = TRUE
    /\ InitRun

SpecInteractive == InitInteractive /\ [][NextInteractive]_vars

\* --------------------- functions of redeploy-auto.py and redeploy-interactive.py
\* (names of redeploy-auto.py carry the prefix HA_, names of
\* redeploy-interactive.py the prefix HI_)
HA_get_carbon_intensity(resp) ==
    IF resp.kind = "json" THEN resp.carbonIntensity ELSE Inf

\* find_best_region: the plain minimum
HA_find_best_region(resp) ==
    min_region([r \in RegionKeys |-> HA_get_carbon_intensity(resp[r])])

\* check_existing_deployments
HA_check_existing_deployments(run, failed) ==
    [r \in RegionKeys |-> IF r \in failed THEN {} ELSE run[r]]

HA_update_tfvars(region, file, t) ==
    [aws_region |-> region, deployment_id |-> t]

\* remove_security_groups: a deletion is issued for every group listed; its
\* exit status is printed, nothing raises
HA_remove_security_groups(region, groups, describeOk) ==
    {Issued("describe-security-groups", region)}
    \cup (IF describeOk
          THEN {IssuedFor("delete-security-group", region, g) : g \in groups}
          ELSE {})

\* run_terraform: remove_security_groups(deploy_region), terraform init,
\* terraform apply; no exit status is looked at. An apply for a region that
\* does not exist creates nothing
HA_run_terraform(deploy_region, run, groups, describeOk, res) ==
    LET ok == res = "ok" /\ deploy_region \in RegionKeys
    IN [cmds |-> HA_remove_security_groups(deploy_region, groups, describeOk)
                 \cup {Cmd("terraform apply", deploy_region, 0, ok)},
        running |-> IF ok
                    THEN [run EXCEPT ![deploy_region] = @ \cup {NEW_INSTANCE}]
                    ELSE run]

\* get_terraform_output: None on a non-zero exit status or an empty output
HA_get_terraform_output(res) == IF res = "value" THEN "value" ELSE "None"

HA_wait_for_http_ok(resp, max_attempts) == Poll(resp, 1, max_attempts)

\* terminate_instance: waits only after a terminate-instances that exited 0;
\* nothing raises
HA_terminate_instance(instance_id, region, run, termOk) ==
    LET ok == termOk /\ instance_id \in run[region]
    IN [running |-> IF ok THEN [run EXCEPT ![region] = @ \ {instance_id}] ELSE run,
        cmds |-> {Cmd("terminate-instances", region, instance_id, ok)}
                 \cup (IF ok
                       THEN {IssuedFor("wait instance-terminated", region, instance_id)}
                       ELSE {})]

\* ---------------------------------------------------- redeploy-auto.deploy
\* deploy, "1. Find the recommended region"
HA_deploy_find_best_region ==
    /\ script = "redeploy-auto"
    /\ pc = "deploy"
    /\ \E resp \in [RegionKeys -> Responses] :
         best_region' = HA_find_best_region(resp)
    /\ out' = out \cup {"Recommended AWS Region"}
    /\ pc' = "check"
    /\ UNCHANGED <<config, exc, carbon_data, api_accessible, deployments, step,
                   tfvars, now, cloud, cmds, http_200, call, standalone, typed, repeat>>

\* deploy, "2. Check existing deployments" and the choice among its cases;
\* current_best_region is a key of deployments, which chosen_region is not, so
\* the test "current_best_region == chosen_region" is never true
HA_deploy_check ==
    /\ script = "redeploy-auto"
    /\ pc = "check"
    /\ \E failed \in SUBSET RegionKeys :
         LET found == HA_check_existing_deployments(running, failed)
         IN /\ deployments' = found
            /\ IF best_region \in DOMAIN found /\ found[best_region] # {}
               THEN /\ out' = out \cup {"No redeployment needed"}
                    /\ pc' = "done"
               ELSE /\ out' = out \cup (IF found = NoneFound
                                        THEN {"No instance deployed yet"}
                                        ELSE {"Proceeding with redeployment"})
                    /\ pc' = "update_tfvars"
    /\ UNCHANGED <<config, exc, carbon_data, api_accessible, best_region, step,
                   tfvars, now, cloud, cmds, http_200, call, standalone, typed, repeat>>

\* deploy: update_tfvars(chosen_region), run_terraform(chosen_region)
HA_provision ==
    /\ script = "redeploy-auto"
    /\ pc = "update_tfvars"
    /\ tfvars' = HA_update_tfvars(best_region, tfvars, now)
    /\ now' = now + 1
    /\ \E groups \in SgListings, describeOk \in BOOLEAN,
          res \in {"ok", "init failed", "apply failed"} :
         LET t == HA_run_terraform(best_region, running, groups, describeOk, res)
         IN cmds' = cmds \cup t.cmds /\ running' = t.running
    /\ pc' = "get_terraform_output"
    /\ UNCHANGED <<config, exc, locals, dns_record, out, http_200, call, standalone, typed, repeat>>

\* deploy: get_terraform_output("instance_public_ip"), wait_for_http_ok
HA_health_check ==
    /\ script = "redeploy-auto"
    /\ pc = "get_terraform_output"
    /\ \E res \in {"value", "empty", "failed"}, first200 \in FirstAnswers :
         IF HA_get_terraform_output(res) = "None"
         THEN /\ out' = out \cup (IF deployments = NoneFound
                                  THEN {"Failed to retrieve instance details"}
                                  ELSE {"No change needed"})
              /\ pc' = "done"
              /\ http_200' = http_200
         ELSE /\ http_200' = Answered(first200, DEFAULT_MAX_ATTEMPTS)
              /\ IF HA_wait_for_http_ok(AnswersFrom(first200, DEFAULT_MAX_ATTEMPTS + 1),
                                        DEFAULT_MAX_ATTEMPTS)
                 THEN out' = out \cup {"HTTP check succeeded"} /\ pc' = "update_dns"
                 ELSE /\ out' = out \cup {"The new instance is not responding on HTTP"}
                      /\ pc' = "done"
    /\ UNCHANGED <<config, exc, locals, tfvars, now, cloud, cmds, call, standalone, typed, repeat>>

\* deploy after a health check that passed: the DNS update when configured;
\* without old deployments the print of the unbound local reg, with old
\* deployments the start of the termination loop
HA_update_dns ==
    /\ script = "redeploy-auto"
    /\ pc = "update_dns"
    /\ IF dns_configured
       THEN \E ok \in BOOLEAN :
              /\ cmds' = cmds \cup {Cmd("change-resource-record-sets", best_region, 0, ok)}
              /\ dns_record' = IF ok THEN best_region ELSE dns_record
       ELSE UNCHANGED <<cmds, dns_record>>
    /\ IF deployments = NoneFound
       THEN /\ exc' = IF dns_configured THEN "UnboundLocalError" ELSE exc
            /\ pc' = "done"
            /\ step' = step
       ELSE /\ exc' = exc
            /\ pc' = "terminate_instance"
            /\ step' = 1
    /\ UNCHANGED <<config, carbon_data, api_accessible, best_region, deployments,
                   tfvars, now, running, out, http_200, call, standalone, typed, repeat>>

\* deploy, "Terminate old instances in other regions", one instance
HA_terminate_step ==
    /\ script = "redeploy-auto"
    /\ pc = "terminate_instance"
    /\ LET plan == CleanupPlan(deployments, best_region)
           reg == plan[step].region
       IN \E termOk, describeOk \in BOOLEAN, groups \in SgListings :
               LET t == HA_terminate_instance(plan[step].id, reg, running, termOk)
               IN /\ running' = t.running
                  /\ cmds' = cmds \cup t.cmds
                       \cup HA_remove_security_groups(reg, groups, describeOk)
                  /\ IF step < Len(plan)
                     THEN step' = step + 1 /\ pc' = pc /\ out' = out
                     ELSE /\ step' = step
                          /\ pc' = "done"
                          /\ out' = out \cup {"Redeployment process complete"}
    /\ UNCHANGED <<config, exc, carbon_data, api_accessible, best_region,
                   deployments, tfvars, now, dns_record, http_200, call, standalone, typed, repeat>>

NextHyphenAuto ==
    \/ HA_deploy_find_best_region
    \/ HA_deploy_check
    \/ HA_provision
    \/ HA_health_check
    \/ HA_update_dns
    \/ HA_terminate_step

\* --------------------------------------------- redeploy-interactive.deploy
HI_get_carbon_intensity(resp) ==
    IF resp.kind = "json" THEN resp.carbonIntensity ELSE Inf

HI_find_best_region(resp) ==
    min_region([r \in RegionKeys |-> HI_get_carbon_intensity(resp[r])])

HI_check_existing_deployments(run, failed) ==
    [r \in RegionKeys |-> IF r \in failed THEN {} ELSE run[r]]

HI_update_tfvars(region, file, t) ==
    [aws_region |-> region, deployment_id |-> t]

HI_remove_security_groups(region, groups, describeOk) ==
    {Issued("describe-security-groups", region)}
    \cup (IF describeOk
          THEN {IssuedFor("delete-security-group", region, g) : g \in groups}
          ELSE {})

HI_run_terraform(deploy_region, run, groups, describeOk, res) ==
    LET ok == res = "ok" /\ deploy_region \in RegionKeys
    IN [cmds |-> HI_remove_security_groups(deploy_region, groups, describeOk)
                 \cup {Cmd("terraform apply", deploy_region, 0, ok)},
        running |-> IF ok
                    THEN [run EXCEPT ![deploy_region] = @ \cup {NEW_INSTANCE}]
                    ELSE run]

HI_get_terraform_output(res) == IF res = "value" THEN "value" ELSE "None"

HI_wait_for_http_ok(resp, max_attempts) == Poll(resp, 1, max_attempts)

\* terminate_instance: terminate-instances only, its exit status printed
HI_terminate_instance(instance_id, region, run, termOk) ==
    LET ok == termOk /\ instance_id \in run[region]
    IN [running |-> IF ok THEN [run EXCEPT ![region] = @ \ {instance_id}] ELSE run,
        cmds |-> {Cmd("terminate-instances", region, instance_id, ok)}]

\* the typed line taken as the region whatever it is
HI_chosen_region_unchecked(line, auto_region) ==
    LET user_region_input == strip(line)
    IN IF user_region_input = <<>> THEN auto_region
       ELSE user_region_input[1]

\* deploy, "2. Prompt user to override or use the auto-chosen region": the
\* stripped line when it is a key of AWS_REGIONS, else the recommendation
HI_chosen_region(line, auto_region) ==
    LET user_region_input == strip(line)
    IN IF Len(user_region_input) = 1 /\ user_region_input[1] \in RegionKeys
       THEN user_region_input[1]
       ELSE auto_region

\* deploy, "1. Auto-find recommended region"
HI_deploy_find_best_region ==
    /\ script = "redeploy-interactive"
    /\ pc = "deploy"
    /\ \E resp \in [RegionKeys -> Responses] :
         best_region' = HI_find_best_region(resp)
    /\ out' = out \cup {"Recommended AWS Region"}
    /\ pc' = "input"
    /\ UNCHANGED <<config, exc, carbon_data, api_accessible, deployments, step,
                   tfvars, now, cloud, cmds, http_200, call, standalone, typed, repeat>>

\* deploy, step 2: the line typed at the override prompt
HI_choose_region ==
    /\ script = "redeploy-interactive"
    /\ pc = "input"
    /\ \E line \in RegionLines :
         LET chosen_region == HI_chosen_region(line, best_region)
         IN /\ best_region' = chosen_region
            /\ out' = out \cup
                 (IF Len(strip(line)) = 1 /\ strip(line)[1] = chosen_region
                  THEN {"Using user-specified region"}
                  ELSE {"Using recommended region"})
    /\ pc' = "check"
    /\ UNCHANGED <<config, exc, carbon_data, api_accessible, deployments, step,
                   tfvars, now, cloud, cmds, http_200, call, standalone, typed, repeat>>

\* deploy, "Check existing deployments" and the choice among its cases;
\* current_best_region is a key of deployments, which chosen_region is not, so
\* the test "current_best_region != chosen_region" is always true
HI_deploy_check ==
    /\ script = "redeploy-interactive"
    /\ pc = "check"
    /\ \E failed \in SUBSET RegionKeys :
         LET found == HI_check_existing_deployments(running, failed)
         IN /\ deployments' = found
            /\ IF best_region \in DOMAIN found /\ found[best_region] # {}
               THEN /\ out' = out \cup {"No redeployment needed"}
                    /\ pc' = "done"
               ELSE /\ out' = out \cup (IF found = NoneFound
                                        THEN {"No instance deployed yet"}
                                        ELSE {"A lower carbon region is available"})
                    /\ pc' = "update_tfvars"
    /\ UNCHANGED <<config, exc, carbon_data, api_accessible, best_region, step,
                   tfvars, now, cloud, cmds, http_200, call, standalone, typed, repeat>>

\* deploy: update_tfvars(chosen_region), run_terraform(chosen_region)
HI_provision ==
    /\ script = "redeploy-interactive"
    /\ pc = "update_tfvars"
    /\ tfvars' = HI_update_tfvars(best_region, tfvars, now)
    /\ now' = now + 1
    /\ \E groups \in SgListings, describeOk \in BOOLEAN,
          res \in {"ok", "init failed", "apply failed"} :
         LET t == HI_run_terraform(best_region, running, groups, describeOk, res)
         IN cmds' = cmds \cup t.cmds /\ running' = t.running
    /\ pc' = "get_terraform_output"
    /\ UNCHANGED <<config, exc, locals, dns_record, out, http_200, call, standalone, typed, repeat>>

\* deploy: get_terraform_output("instance_public_ip"), wait_for_http_ok
HI_health_check ==
    /\ script = "redeploy-interactive"
    /\ pc = "get_terraform_output"
    /\ \E res \in {"value", "empty", "failed"}, first200 \in FirstAnswers :
         IF HI_get_terraform_output(res) = "None"
         THEN /\ out' = out \cup (IF deployments = NoneFound
                                  THEN {"Failed to retrieve instance details"}
                                  ELSE {"No change needed"})
              /\ pc' = "done"
              /\ http_200' = http_200
         ELSE /\ http_200' = Answered(first200, DEFAULT_MAX_ATTEMPTS)
              /\ IF HI_wait_for_http_ok(AnswersFrom(first200, DEFAULT_MAX_ATTEMPTS + 1),
                                        DEFAULT_MAX_ATTEMPTS)
                 THEN out' = out \cup {"HTTP check succeeded"} /\ pc' = "update_dns"
                 ELSE /\ out' = out \cup {"The new instance is not responding on HTTP"}
                      /\ pc' = "done"
    /\ UNCHANGED <<config, exc, locals, tfvars, now, cloud, cmds, call, standalone, typed, repeat>>

\* deploy after a health check that passed: the DNS update when configured,
\* then the end of the run or the start of the termination loop
HI_update_dns ==
    /\ script = "redeploy-interactive"
    /\ pc = "update_dns"
    /\ IF dns_configured
       THEN \E ok \in BOOLEAN :
              /\ cmds' = cmds \cup {Cmd("change-resource-record-sets", best_region, 0, ok)}
              /\ dns_record' = IF ok THEN best_region ELSE dns_record
       ELSE UNCHANGED <<cmds, dns_record>>
    /\ IF deployments = NoneFound
       THEN /\ pc' = "done"
            /\ step' = step
            /\ out' = out \cup (IF dns_configured THEN {"Deployment complete"} ELSE {})
       ELSE /\ pc' = "terminate_instance"
            /\ step' = 1
            /\ out' = out \cup {"Redeployment complete"}
    /\ UNCHANGED <<config, exc, carbon_data, api_accessible, best_region, deployments,
                   tfvars, now, running, http_200, call, standalone, typed, repeat>>

\* deploy, "Terminate old instance(s)", one instance
HI_terminate_step ==
    /\ script = "redeploy-interactive"
    /\ pc = "terminate_instance"
    /\ LET plan == CleanupPlan(deployments, best_region)
           reg == plan[step].region
       IN \E termOk, describeOk \in BOOLEAN, groups \in SgListings :
               LET t == HI_terminate_instance(plan[step].id, reg, running, termOk)
               IN /\ running' = t.running
                  /\ cmds' = cmds \cup t.cmds
                       \cup HI_remove_security_groups(reg, groups, describeOk)
                  /\ IF step < Len(plan)
                     THEN step' = step + 1 /\ pc' = pc
                     ELSE step' = step /\ pc' = "done"
    /\ UNCHANGED <<config, exc, carbon_data, api_accessible, best_region,
                   deployments, tfvars, now, dns_record, out, http_200, call, standalone, typed, repeat>>

NextHyphenInteractive ==
    \/ HI_deploy_find_best_region
    \/ HI_choose_region
    \/ HI_deploy_check
    \/ HI_provision
    \/ HI_health_check
    \/ HI_update_dns
    \/ HI_terminate_step

\* ------------------------------------------------------ the four variants
Scripts ==
    {"redeploy_auto", "redeploy_interactive", "redeploy-auto", "redeploy-interactive"}

\* AUTH_TOKEN is tested by redeploy_auto only
InitVariants ==
    /\ script \in Scripts
    /\ pc = "deploy"
    /\ InitWorld
    /\ (script # "redeploy_auto" => token)
    /\ InitRun

NextVariants ==
    \/ NextAuto
    \/ NextInteractive
    \/ NextHyphenAuto
    \/ NextHyphenInteractive

SpecVariants == InitVariants /\ [][NextVariants]_vars

\* ------------------------------------------- direct calls (test_error_scenarios)
\* one function of redeploy_auto called directly with arguments of the caller's
\* choice, as the error-scenario tests do, in a cloud as a run can meet it and
\* with a terraform.tfvars that is absent or was written by an earlier run;
\* cmds holds the commands of the call and exc its exception
InitCalls ==
    /\ script = "redeploy_auto"
    /\ pc = "test"
    /\ token = TRUE
    /\ dns_configured = TRUE
    /\ running \in Worlds
    /\ dns_record = "old"
    /\ tfvars \in {NoFile} \cup {[aws_region |-> r, deployment_id |-> 0] : r \in RegionKeys}
    /\ now = 1
    /\ InitRun

call_update_tfvars ==
    /\ pc = "test"
    /\ \E region \in RegionInputs :
         LET res == update_tfvars(region, tfvars, now)
         IN /\ call' = [fn |-> "update_tfvars", region |-> region, id |-> 0]
            /\ tfvars' = res.tfvars
            /\ exc' = res.exc
            /\ now' = IF res.exc = "none" THEN now + 1 ELSE now
    /\ pc' = "called"
    /\ UNCHANGED <<config, locals, cloud, cmds, out, http_200, standalone, typed, repeat>>

call_terminate_instance ==
    /\ pc = "test"
    /\ \E instance_id \in InstIds \cup {INVALID_INSTANCE}, region \in RegionInputs,
          termOk, waitOk \in BOOLEAN :
         LET res == terminate_instance(instance_id, region, running, termOk, waitOk)
         IN /\ call' = [fn |-> "terminate_instance", region |-> region,
                        id |-> instance_id]
            /\ running' = res.running
            /\ cmds' = res.cmds
            /\ exc' = res.exc
    /\ pc' = "called"
    /\ UNCHANGED <<config, locals, tfvars, now, dns_record, out, http_200, standalone, typed, repeat>>

call_remove_security_groups ==
    /\ pc = "test"
    /\ \E region \in RegionInputs, groups \in SgListings, describeOk \in BOOLEAN,
          nDel \in 0..MaxSG :
         LET res == remove_security_groups(region, groups, describeOk, nDel)
         IN /\ call' = [fn |-> "remove_security_groups", region |-> region, id |-> 0]
            /\ cmds' = res.cmds
            /\ exc' = res.exc
    /\ pc' = "called"
    /\ UNCHANGED <<config, locals, tfvars, now, cloud, out, http_200, standalone, typed, repeat>>

NextCalls ==
    \/ call_update_tfvars
    \/ call_terminate_instance
    \/ call_remove_security_groups

SpecCalls == InitCalls /\ [][NextCalls]_vars

\* ------------------------------------- wait_for_http_ok, request by request
\* the largest max_attempts a direct call is given, besides the default
MaxAttempts == 4

HttpAnswers == {"200", "503", "exception"}

\* "if response.status_code == 200" taken as "a response arrived"
attempt_succeeds_any_status(answer) == answer # "exception"

\* one pass of the loop body: the request got a response whose status is 200;
\* a RequestException is caught and the pass goes on to the print and the sleep
attempt_succeeds(answer) == answer = "200"

\* redeploy_interactive's loop body, the same test
I_attempt_succeeds(answer) == answer = "200"

\* what the address answers to the successive requests of one call
Servers(max_attempts) ==
    IF max_attempts = DEFAULT_MAX_ATTEMPTS
    THEN {AnswersFrom(f, max_attempts) : f \in FirstAnswers}
    ELSE [1..max_attempts -> HttpAnswers]

PollScripts == {"redeploy_auto", "redeploy_interactive"}

InitPoll ==
    /\ script \in PollScripts
    /\ pc = "wait_for_http_ok"
    /\ token = TRUE
    /\ dns_configured = TRUE
    /\ running = NoneFound
    /\ dns_record = "old"
    /\ tfvars = NoFile
    /\ now = 1
    /\ exc = "none"
    /\ carbon_data = OutOfScope
    /\ api_accessible = TRUE
    /\ best_region = ""
    /\ deployments = NoneFound
    /\ step = 0
    /\ cmds = {}
    /\ out = {}
    /\ http_200 = FALSE
    /\ call = NoCall
    /\ ret = "none"
    /\ state_file = NoStateFile
    /\ snapshot_file = NoStateFile
    /\ taken = NoStateFile
    /\ checks = NoChecks
    /\ typed = <<>>
    /\ run_no = 1
    /\ queried = NotQueried
    /\ \E m \in (0..MaxAttempts) \cup {DEFAULT_MAX_ATTEMPTS} :
         \E s \in Servers(m) :
           poll = [max_attempts |-> m, attempt |-> 1, sent |-> 0, server |-> s]

\* one pass of "for attempt in range(1, max_attempts + 1)": the request, then
\* either "return True" or the print, the sleep and the next attempt
poll_attempt ==
    /\ script \in PollScripts
    /\ pc = "wait_for_http_ok"
    /\ poll.attempt <= poll.max_attempts
    /\ LET answer == poll.server[poll.attempt]
           ok == IF script = "redeploy_auto" THEN attempt_succeeds(answer)
                 ELSE I_attempt_succeeds(answer)
       IN IF ok
          THEN /\ poll' = [poll EXCEPT !.sent = @ + 1]
               /\ http_200' = (answer = "200")
               /\ out' = out \cup {"HTTP check succeeded"}
               /\ ret' = "True"
               /\ pc' = "returned"
          ELSE /\ poll' = [poll EXCEPT !.sent = @ + 1, !.attempt = @ + 1]
               /\ out' = out \cup {"waiting for HTTP 200"}
               /\ UNCHANGED <<http_200, ret, pc>>
    /\ UNCHANGED <<config, exc, locals, tfvars, now, cloud, cmds, call, manager,
                   typed, repeat>>

\* the loop has run out: "Gave up waiting", return False
poll_give_up ==
    /\ script \in PollScripts
    /\ pc = "wait_for_http_ok"
    /\ poll.attempt > poll.max_attempts
    /\ out' = out \cup {"Gave up waiting for a successful HTTP response"}
    /\ ret' = "False"
    /\ pc' = "returned"
    /\ UNCHANGED <<config, exc, locals, tfvars, now, cloud, cmds, http_200, call, poll,
                   manager, typed, repeat>>

NextPoll == poll_attempt \/ poll_give_up

\* the call runs in a process that keeps running: a request ends within its
\* timeout and the sleep is finite
SpecPoll == InitPoll /\ [][NextPoll]_vars /\ WF_vars(NextPoll)

\* ------------------------------------ utils/deployment_manager.py
\* the largest number of entries of a JSON object or list in a state file
MaxSerial == 2

\* JSON values: objects and lists by their number of entries, and null
JsonValues ==
    {[type |-> "dict", n |-> k] : k \in 0..MaxSerial}
      \cup {[type |-> "list", n |-> k] : k \in 0..1}
      \cup {JsonNull}

\* Python's truth value of a loaded JSON value: {}, [] and None are false
Truthy(v) == v.type # "null" /\ v.n > 0

\* what a path can hold: nothing, JSON text in some layout, text that is no
\* JSON (an empty file too), bytes that are no UTF-8, a file that cannot be read
StateFiles ==
    {NoStateFile}
      \cup {[kind |-> "json", fmt |-> f, value |-> v] :
              f \in {"compact", "indent2"}, v \in JsonValues}
      \cup {[kind |-> k, fmt |-> "", value |-> JsonNull] :
              k \in {"notjson", "binary", "unreadable"}}

\* open(path, 'r', encoding='utf-8') and json.load(f)
json_load(file) ==
    IF file.kind = "json" THEN [exc |-> "none", value |-> file.value]
    ELSE [exc |-> CASE file.kind = "absent" -> "OSError"
                    [] file.kind = "unreadable" -> "OSError"
                    [] file.kind = "binary" -> "UnicodeDecodeError"
                    [] OTHER -> "JSONDecodeError",
          value |-> JsonNull]

\* open(path, 'w', encoding='utf-8') and json.dump(value, f, indent=2)
json_dump(value) == [kind |-> "json", fmt |-> "indent2", value |-> value]

\* check_terraform_installation: 'terraform --version' with check=True
check_terraform_installation(res) ==
    IF res = "ok" THEN [exc |-> "none", value |-> TRUE]
    ELSE IF res \in {"CalledProcessError", "FileNotFoundError"}
    THEN [exc |-> "none", value |-> FALSE]
    ELSE [exc |-> res, value |-> FALSE]

\* check_aws_credentials: sts.get_caller_identity()
check_aws_credentials(res) ==
    IF res = "ok" THEN [exc |-> "none", value |-> TRUE]
    ELSE IF res \in {"NoCredentialsError", "ClientError", "BotoCoreError"}
    THEN [exc |-> "none", value |-> FALSE]
    ELSE [exc |-> res, value |-> FALSE]

\* check_terraform_state with a missing state file refused
check_terraform_state_strict(file) ==
    IF file.kind # "absent"
    THEN LET loaded == json_load(file)
         IN IF loaded.exc = "none" THEN [exc |-> "none", value |-> TRUE]
            ELSE IF loaded.exc = "JSONDecodeError"
            THEN [exc |-> "none", value |-> FALSE]
            ELSE [exc |-> loaded.exc, value |-> FALSE]
    ELSE [exc |-> "none", value |-> FALSE]

\* check_terraform_state: only json.JSONDecodeError is caught
check_terraform_state(file) ==
    IF file.kind # "absent"
    THEN LET loaded == json_load(file)
         IN IF loaded.exc = "none" THEN [exc |-> "none", value |-> TRUE]
            ELSE IF loaded.exc = "JSONDecodeError"
            THEN [exc |-> "none", value |-> FALSE]
            ELSE [exc |-> loaded.exc, value |-> FALSE]
    ELSE [exc |-> "none", value |-> TRUE]

\* check_environment_config: config/environments.py exists
check_environment_config(exists) == [exc |-> "none", value |-> exists]

RECURSIVE checks_loop(_, _)
\* pre_deployment_checks' loop from check i on: False at the first failed check
checks_loop(results, i) ==
    IF i > Len(results) THEN TRUE
    ELSE IF ~results[i].value THEN FALSE
    ELSE checks_loop(results, i + 1)

\* the loop returning at the first check whatever its result
checks_first_only(results) == results[1].value

\* pre_deployment_checks' loop over checks.items()
checks_pass(results) == checks_loop(results, 1)

\* pre_deployment_checks: the dict of the four results is built first, so a
\* check that raises ends the call before any result is looked at
pre_deployment_checks(terraform, aws, file, config_exists) ==
    LET results == <<check_terraform_installation(terraform),
                     check_aws_credentials(aws),
                     check_terraform_state(file),
                     check_environment_config(config_exists)>>
        raised == {i \in 1..4 : results[i].exc # "none"}
    IN IF raised # {}
       THEN [exc |-> results[CHOOSE i \in raised : \A j \in raised : i <= j].exc,
             value |-> "none", checks |-> NoChecks]
       ELSE [exc |-> "none",
             value |-> IF checks_pass(results) THEN "True" ELSE "False",
             checks |-> [i \in 1..4 |-> results[i].value]]

\* backup_terraform_state: {} when the file is missing, unreadable or no JSON
backup_terraform_state(file) ==
    IF file.kind # "absent"
    THEN LET loaded == json_load(file)
         IN IF loaded.exc = "none" THEN loaded
            ELSE IF loaded.exc \in {"JSONDecodeError", "OSError"}
            THEN [exc |-> "none", value |-> [type |-> "dict", n |-> 0]]
            ELSE loaded
    ELSE [exc |-> "none", value |-> [type |-> "dict", n |-> 0]]

\* create_deployment_snapshot: the file written under backups/, of which the
\* model keeps the 'terraform_state' entry
create_deployment_snapshot(file, writeOk) ==
    LET backup == backup_terraform_state(file)
    IN IF backup.exc # "none" THEN [exc |-> backup.exc, snapshot |-> NoStateFile]
       ELSE IF ~writeOk THEN [exc |-> "OSError", snapshot |-> NoStateFile]
       ELSE [exc |-> "none", snapshot |-> json_dump(backup.value)]

\* the outcomes of writing a file: written, not opened, opened (and so
\* truncated) but not written to the end
WriteOutcomes == {"ok", "open fails", "dump fails"}

\* rollback: the state file is written only when the snapshot's
\* 'terraform_state' is truthy; OSError and JSONDecodeError give False
rollback(snapshot, file, write) ==
    LET loaded == json_load(snapshot)
    IN IF loaded.exc # "none" THEN [value |-> "False", state |-> file]
       ELSE IF Truthy(loaded.value)
       THEN CASE write = "ok" ->
                   [value |-> "True", state |-> json_dump(loaded.value)]
              [] write = "open fails" ->
                   [value |-> "False", state |-> file]
              [] OTHER ->
                   [value |-> "False",
                    state |-> [kind |-> "notjson", fmt |-> "", value |-> JsonNull]]
       ELSE [value |-> "True", state |-> file]

TerraformAnswers == {"ok", "CalledProcessError", "FileNotFoundError", "PermissionError"}
AwsAnswers == {"ok", "NoCredentialsError", "ClientError", "BotoCoreError"}

InitManager ==
    /\ script = "deployment_manager"
    /\ pc = "manager"
    /\ token = TRUE
    /\ dns_configured = TRUE
    /\ running = NoneFound
    /\ dns_record = "old"
    /\ tfvars = NoFile
    /\ now = 1
    /\ exc = "none"
    /\ carbon_data = OutOfScope
    /\ api_accessible = TRUE
    /\ best_region = ""
    /\ deployments = NoneFound
    /\ step = 0
    /\ cmds = {}
    /\ out = {}
    /\ http_200 = FALSE
    /\ call = NoCall
    /\ poll = NoPoll
    /\ ret = "none"
    /\ state_file \in StateFiles
    /\ snapshot_file = NoStateFile
    /\ taken = NoStateFile
    /\ checks = NoChecks
    /\ typed = <<>>
    /\ run_no = 1
    /\ queried = NotQueried

Called(fn) == [fn |-> fn, region |-> "", id |-> 0]

\* a call of check_terraform_state
dm_check_terraform_state ==
    /\ script = "deployment_manager"
    /\ pc \in {"manager", "snapshot_taken"}
    /\ LET res == check_terraform_state(state_file)
       IN /\ exc' = res.exc
          /\ ret' = IF res.exc # "none" THEN "none"
                    ELSE IF res.value THEN "True" ELSE "False"
          /\ pc' = IF res.exc # "none" THEN "done" ELSE pc
    /\ call' = Called("check_terraform_state")
    /\ checks' = NoChecks
    /\ UNCHANGED <<config, locals, tfvars, now, cloud, cmds, out, http_200, poll, typed, repeat,
                   state_file, snapshot_file, taken>>

\* a call of pre_deployment_checks
dm_pre_deployment_checks ==
    /\ script = "deployment_manager"
    /\ pc \in {"manager", "snapshot_taken"}
    /\ \E terraform \in TerraformAnswers, aws \in AwsAnswers, config_exists \in BOOLEAN :
         LET res == pre_deployment_checks(terraform, aws, state_file, config_exists)
         IN /\ exc' = res.exc
            /\ ret' = res.value
            /\ checks' = res.checks
            /\ pc' = IF res.exc # "none" THEN "done" ELSE pc
    /\ call' = Called("pre_deployment_checks")
    /\ UNCHANGED <<config, locals, tfvars, now, cloud, cmds, out, http_200, poll, typed, repeat,
                   state_file, snapshot_file, taken>>

\* a call of create_deployment_snapshot
dm_create_deployment_snapshot ==
    /\ script = "deployment_manager"
    /\ pc = "manager"
    /\ \E writeOk \in BOOLEAN :
         LET res == create_deployment_snapshot(state_file, writeOk)
         IN /\ exc' = res.exc
            /\ snapshot_file' = res.snapshot
            /\ taken' = IF res.exc = "none" THEN state_file ELSE taken
            /\ ret' = IF res.exc = "none" THEN "snapshot_file" ELSE "none"
            /\ pc' = IF res.exc = "none" THEN "snapshot_taken" ELSE "done"
    /\ call' = Called("create_deployment_snapshot")
    /\ checks' = NoChecks
    /\ UNCHANGED <<config, locals, tfvars, now, cloud, cmds, out, http_200, poll, typed, repeat,
                   state_file>>

\* between the snapshot and the rollback a deployment creates, replaces,
\* damages or removes the state file
dm_state_changes ==
    /\ script = "deployment_manager"
    /\ pc = "snapshot_taken"
    /\ state_file' \in StateFiles \ {state_file}
    /\ UNCHANGED <<config, pc, exc, locals, tfvars, now, cloud, cmds, out, http_200,
                   call, poll, ret, snapshot_file, taken, checks, typed, repeat>>

\* a call of rollback(snapshot_file)
dm_rollback ==
    /\ script = "deployment_manager"
    /\ pc = "snapshot_taken"
    /\ \E readOk \in BOOLEAN, write \in WriteOutcomes :
         LET res == rollback(IF readOk THEN snapshot_file
                             ELSE [snapshot_file EXCEPT !.kind = "unreadable"],
                             state_file, write)
         IN /\ ret' = res.value
            /\ state_file' = res.state
    /\ pc' = "rolled_back"
    /\ call' = Called("rollback")
    /\ checks' = NoChecks
    /\ UNCHANGED <<config, exc, locals, tfvars, now, cloud, cmds, out, http_200, poll,
                   snapshot_file, taken, typed, repeat>>

NextManager ==
    \/ dm_check_terraform_state
    \/ dm_pre_deployment_checks
    \/ dm_create_deployment_snapshot
    \/ dm_state_changes
    \/ dm_rollback

SpecManager == InitManager /\ [][NextManager]_vars

\* ----------------------------------- redeploy_auto.deploy, run twice in a row
\* the API gives both runs the same answers; without a token it is not asked
InitRepeat ==
    /\ script = "redeploy_auto"
    /\ pc = "deploy"
    /\ InitWorld
    /\ exc = "none"
    /\ carbon_data = OutOfScope
    /\ api_accessible = TRUE
    /\ best_region = ""
    /\ deployments = NoneFound
    /\ step = 0
    /\ cmds = {}
    /\ out = {}
    /\ http_200 = FALSE
    /\ call = NoCall
    /\ poll = NoPoll
    /\ ret = "none"
    /\ state_file = NoStateFile
    /\ snapshot_file = NoStateFile
    /\ taken = NoStateFile
    /\ checks = NoChecks
    /\ typed = <<>>
    /\ run_no = 1
    /\ queried \in [RegionKeys -> Responses]
    /\ (~token => queried = NotQueried)

\* deploy, "1. Get carbon intensities and show recommendations", with the
\* answers the API gives to both runs
repeat_select ==
    /\ script = "redeploy_auto"
    /\ pc = "deploy"
    /\ LET data == [r \in RegionKeys |-> get_carbon_intensity(token, queried[r])]
       IN /\ carbon_data' = data
          /\ api_accessible' = ApiAccessible(data)
          /\ best_region' = choose_region(data)
          /\ out' = out \cup (IF ApiAccessible(data)
                              THEN {"Recommended AWS Region"}
                              ELSE {"API ACCESS ERROR"})
    /\ pc' = "check"
    /\ UNCHANGED <<config, exc, deployments, step, tfvars, now, cloud, cmds, http_200,
                   call, standalone, typed, repeat>>

\* run_main is started again right after a run that deployed a healthy
\* instance and ended without an exception: new locals and new output, the
\* cloud, the file and the API as the first run left them
run_again ==
    /\ script = "redeploy_auto"
    /\ pc = "done"
    /\ run_no = 1
    /\ exc = "none"
    /\ "HTTP check succeeded" \in out
    /\ run_no' = 2
    /\ pc' = "deploy"
    /\ carbon_data' = OutOfScope
    /\ api_accessible' = TRUE
    /\ best_region' = ""
    /\ deployments' = NoneFound
    /\ step' = 0
    /\ cmds' = {}
    /\ out' = {}
    /\ http_200' = FALSE
    /\ UNCHANGED <<config, exc, tfvars, now, cloud, call, standalone, typed, queried>>

NextRepeat ==
    \/ repeat_select
    \/ deploy_check
    \/ deploy_update_tfvars
    \/ run_terraform
    \/ deploy_terraform_output
    \/ deploy_health_check
    \/ deploy_update_dns
    \/ cleanup_terminate_instance
    \/ cleanup_sgs
    \/ handle_no_old_instances
    \/ run_again

SpecRepeat == InitRepeat /\ [][NextRepeat]_vars

\* ------------------------------------------------------------------ claims
Issues(c) == \E x \in cmds : x.cmd = c
AllFinite == \A r \in RegionKeys : carbon_data[r] < Inf
Provisioned ==
    /\ Cmd("terraform apply", best_region, 0, TRUE) \in cmds
    /\ NEW_INSTANCE \in running[best_region]
    /\ "HTTP check succeeded" \in out
FoundOnlyElsewhere ==
    /\ pc \notin {"deploy", "check"}
    /\ deployments # NoneFound
    /\ deployments[best_region] = {}

\* C1: in redeploy_auto.deploy, when all three queries give a finite value, the
\* chosen region's intensity is at most that of every region, and among the
\* regions tied for the minimum the chosen one is the first of eu-west-1,
\* eu-west-2, eu-central-1.
C1_ChosenIsFirstMinimum ==
    (script = "redeploy_auto" /\ pc = "check" /\ AllFinite) =>
        /\ best_region \in RegionKeys
        /\ \A r \in RegionKeys : carbon_data[best_region] <= carbon_data[r]
        /\ \A i, j \in 1..Len(AWS_REGIONS) :
             (AWS_REGIONS[j] = best_region
              /\ carbon_data[AWS_REGIONS[i]] = carbon_data[best_region]) => j <= i

\* two regions tied for the minimum, the first region above it
C1_Witness ==
    /\ script = "redeploy_auto" /\ pc = "check"
    /\ carbon_data["eu-west-1"] = 2
    /\ carbon_data["eu-west-2"] = 1
    /\ carbon_data["eu-central-1"] = 1
    /\ best_region = "eu-west-2"

\* C2: a run of redeploy_auto.deploy that found running instances only in
\* regions other than the chosen one, provisioned the new instance and passed
\* the health check has, when it ends, terminated every instance it found,
\* reported "Cleanup complete", and left running instances in the chosen
\* region only.
C2_OldInstancesCleanedUp ==
    (script = "redeploy_auto" /\ pc = "done" /\ exc = "none"
     /\ FoundOnlyElsewhere /\ Provisioned) =>
        /\ \A r \in RegionKeys : \A i \in deployments[r] :
             Cmd("terminate-instances", r, i, TRUE) \in cmds
        /\ "Cleanup complete" \in out
        /\ \A r \in RegionKeys \ {best_region} :
             deployments[r] # {} => running[r] = {}

\* C3: in each of the four scripts, a run in which the new instance has not
\* answered HTTP 200 to one of the health check's requests issues no
\* terminate-instances command, and every instance found before is still
\* running.
C3_NoTerminationWithoutHealthyInstance ==
    ~http_200 =>
        /\ ~Issues("terminate-instances")
        /\ \A r \in RegionKeys : deployments[r] \subseteq running[r]

\* the health check of redeploy-interactive.py failed with an old instance found
C3_Witness ==
    /\ script = "redeploy-interactive"
    /\ pc = "done"
    /\ ~http_200
    /\ "The new instance is not responding on HTTP" \in out
    /\ NEW_INSTANCE \in running[best_region]
    /\ deployments # NoneFound

C5_FallbackToDefault ==
    /\ (script = "redeploy_auto" /\ pc = "check"
        /\ \E r \in RegionKeys : carbon_data[r] = Inf) =>
           /\ ~api_accessible
           /\ exc = "none"
           /\ best_region = DEFAULT_REGION
           /\ "API ACCESS ERROR" \in out
    /\ (script = "redeploy_auto" /\ pc \notin {"deploy", "check"}
        /\ ~api_accessible) =>
           /\ best_region = DEFAULT_REGION
           /\ "API ACCESS ERROR" \in out
           /\ ("No need to redeploy" \in out) <=> (deployments[DEFAULT_REGION] # {})
           /\ tfvars # NoFile => tfvars.aws_region = DEFAULT_REGION
           /\ (tfvars = NoFile) =>
                (pc = "update_tfvars" \/ "No need to redeploy" \in out)

\* no token, an old instance elsewhere: the run deploys to eu-west-2 and cleans up
C5_Witness ==
    /\ script = "redeploy_auto" /\ pc = "done"
    /\ ~token /\ ~api_accessible
    /\ tfvars # NoFile /\ tfvars.aws_region = DEFAULT_REGION
    /\ NEW_INSTANCE \in running[DEFAULT_REGION]
    /\ "Cleanup complete" \in out

\* C6: a run of redeploy_auto.deploy that starts with no tagged instance
\* running in any region, provisions the new instance and passes the health
\* check has, when it ends, an instance in the chosen region, issued no
\* terminate-instances and reported "No old instances found to clean up".
C6_FreshDeployReportsNoOldInstances ==
    (script = "redeploy_auto" /\ pc = "done" /\ exc = "none"
     /\ (\A r \in RegionKeys : running[r] \subseteq {NEW_INSTANCE})
     /\ deployments = NoneFound /\ Provisioned) =>
        /\ NEW_INSTANCE \in running[best_region]
        /\ ~Issues("terminate-instances")
        /\ "No old instances found to clean up" \in out

\* C7: in each of the four scripts and for every line the user types, the
\* aws_region that terraform.tfvars holds once a run has written it is a key of
\* AWS_REGIONS.
C7_WrittenRegionIsKnown ==
    tfvars # NoFile => tfvars.aws_region \in RegionKeys

\* redeploy_interactive.py wrote the file after a number out of range was typed
C7_Witness ==
    /\ script = "redeploy_interactive"
    /\ "Please enter a number between 1 and 3" \in out
    /\ "Please enter a valid number" \in out
    /\ tfvars # NoFile
    /\ tfvars.aws_region = "eu-central-1"

\* C8: redeploy_auto.update_tfvars called with a region that is no key of
\* AWS_REGIONS raises ValueError, leaves terraform.tfvars as it was and reads
\* no time for a deployment id.
C8_InvalidRegionLeavesTfvars ==
    [][(pc = "test" /\ call'.fn = "update_tfvars" /\ call'.region \notin RegionKeys) =>
          (exc' = "ValueError" /\ tfvars' = tfvars /\ now' = now)]_vars

\* the invalid call made on a file that an earlier run had written
C8_Witness ==
    /\ call.fn = "update_tfvars" /\ call.region = "invalid-region"
    /\ exc = "ValueError"
    /\ tfvars # NoFile /\ tfvars.aws_region \in RegionKeys

\* C9: redeploy_auto.remove_security_groups called with a region that is no
\* key of AWS_REGIONS raises ValueError and has issued no
\* describe-security-groups and no delete-security-group command.
C9_InvalidRegionNoSgCommand ==
    (call.fn = "remove_security_groups" /\ call.region \notin RegionKeys) =>
        /\ exc = "ValueError"
        /\ ~Issues("describe-security-groups")
        /\ ~Issues("delete-security-group")

C9_Witness ==
    /\ call.fn = "remove_security_groups" /\ call.region = "invalid-region"
    /\ exc = "ValueError"
    /\ cmds = {}

\* C10: when the terminate-instances command of redeploy_auto.terminate_instance
\* exits non-zero, the call ends with CalledProcessError and has issued no
\* "wait instance-terminated" for that instance.
C10_FailedTerminateRaisesNoWait ==
    (script = "redeploy_auto" /\ call.fn = "terminate_instance") =>
        \A c \in cmds :
            (c.cmd = "terminate-instances" /\ ~c.ok) =>
                /\ exc = "CalledProcessError"
                /\ \A w \in cmds : ~(w.cmd = "wait instance-terminated"
                                     /\ w.region = c.region /\ w.id = c.id)

\* the test's call: an id of no instance, in eu-west-2
C10_Witness ==
    /\ call = [fn |-> "terminate_instance", region |-> "eu-west-2",
               id |-> INVALID_INSTANCE]
    /\ Cmd("terminate-instances", "eu-west-2", INVALID_INSTANCE, FALSE) \in cmds
    /\ exc = "CalledProcessError"

TeardownCmds == {"terminate-instances", "wait instance-terminated", "delete-security-group"}
TeardownFailed == \E x \in cmds : x.cmd \in TeardownCmds /\ ~x.ok

\* C11: in redeploy_auto, once a teardown command (terminate-instances, wait
\* instance-terminated, delete-security-group) has exited non-zero, no exception
\* leaves deploy, and when the run has ended a terminate-instances has been
\* issued for every old instance of every old region.
C11_TeardownFailureIsContained ==
    (script = "redeploy_auto" /\ TeardownFailed) =>
        /\ exc = "none"
        /\ pc = "done" =>
             LET plan == CleanupPlan(deployments, best_region)
             IN \A i \in 1..Len(plan) :
                  \E x \in cmds : /\ x.cmd = "terminate-instances"
                                  /\ x.region = plan[i].region
                                  /\ x.id = plan[i].id

Got200(a) == poll.server[a] = "200"

\* C12: a call of wait_for_http_ok (redeploy_auto, redeploy_interactive) never
\* sends more than max_attempts requests; it returns True exactly when one of
\* the requests it sent received status 200, and then that request is its last
\* and the first answered 200; it returns False exactly after max_attempts
\* requests none of which received 200, a request exception and a non-200
\* status each counting as one; the value is the one wait_for_http_ok computes
\* from the answers; and every call returns.
C12_PollingIsBoundedAndExact ==
    /\ [](/\ poll.sent <= poll.max_attempts
          /\ \A a \in 1..(poll.sent - 1) : ~Got200(a)
          /\ pc = "returned" =>
               /\ ret \in {"True", "False"}
               /\ ret = "True" <=> \E a \in 1..poll.sent : Got200(a)
               /\ ret = "True" => Got200(poll.sent)
               /\ ret = "False" =>
                    /\ poll.sent = poll.max_attempts
                    /\ \A a \in 1..poll.max_attempts :
                         poll.server[a] \in {"503", "exception"}
               /\ (ret = "True") = wait_for_http_ok(poll.server, poll.max_attempts))
    /\ <>(pc = "returned")

\* a call with the default of 20 attempts whose twentieth request is the first
\* to receive 200, after 503s and connection errors, has returned True
C12_Witness ==
    /\ pc = "returned"
    /\ poll.max_attempts = DEFAULT_MAX_ATTEMPTS
    /\ poll.sent = DEFAULT_MAX_ATTEMPTS
    /\ poll.server[1] = "503"
    /\ poll.server[2] = "exception"
    /\ ret = "True"

\* C13: in redeploy_auto.deploy_to_region, when a 'terraform output' command
\* fails or prints an empty value, get_terraform_output returns None without
\* raising: the run ends there with "Failed to get instance details" reported,
\* no exception, and no command issued, no DNS change, no instance terminated.
C13_FailedOutputReturnsNone ==
    [][(script = "redeploy_auto" /\ pc = "terraform_output" /\ pc' = "done") =>
          /\ exc' = "none"
          /\ "Failed to get instance details" \in out'
          /\ UNCHANGED <<cmds, running, dns_record>>]_vars

JsonEqual(f, g) ==
    IF f.kind = "json" /\ g.kind = "json" THEN f.value = g.value
    ELSE f.kind = g.kind
RolledBack == pc = "rolled_back" /\ ret = "True"

\* C14: after create_deployment_snapshot, any changes of the state file and a
\* rollback(snapshot_file) that returned True, terraform/terraform.tfstate
\* holds, as JSON, what it held when the snapshot was made (and does not exist
\* if it did not exist then).
C14_RollbackRestoresState ==
    RolledBack => JsonEqual(state_file, taken)

ChecksReturned == call.fn = "pre_deployment_checks" /\ exc = "none"

StateChecked == call.fn = "check_terraform_state"

\* C16: a call of check_terraform_state returns True when there is no state
\* file, True when the state file holds JSON, and False only when the file
\* exists and does not hold JSON.
C16_MissingStateAllowed ==
    [][(call'.fn = "check_terraform_state" /\ state_file' = state_file) =>
          /\ state_file.kind = "absent" => ret' = "True"
          /\ state_file.kind = "json" => ret' = "True"
          /\ ret' = "False" => state_file.kind \in {"notjson", "binary"}]_vars

\* the check has returned True for a missing state file
C16_Witness ==
    /\ StateChecked
    /\ state_file.kind = "absent"
    /\ ret = "True"

\* answers among AnswerLines that say yes and that say no, in either case and
\* with blanks around
YesAnswers == {<<"y">>, <<"YES">>}
NoAnswers == {<<" ", "n">>, <<"No", " ">>}
Declined == script = "redeploy_interactive" /\ pc = "done" /\ typed \in NoAnswers

\* C17: in redeploy_interactive.deploy, a run whose answer to the confirmation
\* is no has ended and has written no terraform.tfvars, issued no terraform,
\* DNS, terminate or delete command, and left DNS and instances as they were;
\* the run goes past the confirmation only on a yes answer (y, yes), ends at
\* it only on a no answer (n, no), and stays at the prompt on anything else,
\* with "Please answer 'y' or 'n'" printed.
C17_DeclineHasNoEffect ==
    /\ [](script = "redeploy_interactive" =>
            /\ Declined => /\ tfvars = NoFile
                           /\ cmds = {}
                           /\ dns_record = "old"
                           /\ \A r \in RegionKeys : NEW_INSTANCE \notin running[r]
            /\ pc \notin {"deploy", "get_user_confirmation", "done"} =>
                 typed \in YesAnswers
            /\ pc = "done" => typed \in YesAnswers \cup NoAnswers
            /\ (pc = "get_user_confirmation" /\ typed # <<>>) =>
                 /\ typed \notin YesAnswers \cup NoAnswers
                 /\ "Please answer 'y' or 'n'" \in out)
    /\ [][Declined => FALSE]_vars
    /\ [][(script = "redeploy_interactive" /\ pc = "get_user_confirmation") =>
             UNCHANGED <<tfvars, cmds, dns_record, running>>]_vars

\* a run that ended on " n" typed after an answer that was neither
C17_Witness ==
    /\ Declined
    /\ typed = <<" ", "n">>
    /\ "Please answer 'y' or 'n'" \in out
    /\ \E r \in RegionKeys : running[r] # {}

Selected == script = "redeploy_auto" /\ pc = "check"

\* C18 as stated: for every combination of query results, failures (infinity)
\* included, redeploy_auto.deploy chooses the region find_best_region returns
\* for the same results.
C18_DeployAgreesWithFindBestRegion ==
    Selected => best_region = find_best_region(carbon_data)

\* C18 amended: for every combination of finite query results, deploy chooses
\* the region find_best_region returns for the same results.
C18_DeployAgreesWhenAllFinite ==
    (Selected /\ AllFinite) => best_region = find_best_region(carbon_data)

\* all three queries answered, the last two regions tied for the minimum
C18_Witness ==
    /\ Selected
    /\ AllFinite
    /\ carbon_data["eu-west-2"] = carbon_data["eu-central-1"]
    /\ carbon_data["eu-west-2"] < carbon_data["eu-west-1"]
    /\ best_region = "eu-west-2"

\* C19: whenever redeploy_auto.deploy prints 'Lower carbon region detected'
\* and starts the redeployment, the intensity of the region chosen is strictly
\* lower than the intensity of every region in which a tagged instance runs.
C19_TargetStrictlyLower ==
    [][(/\ script = "redeploy_auto"
        /\ pc = "check"
        /\ "Lower carbon region detected" \in out') =>
          \A r \in RegionKeys :
             running[r] # {} => carbon_data[best_region] < carbon_data[r]]_vars

NewDeletes == {x \in cmds' \ cmds : x.cmd = "delete-security-group"}

\* C20: in redeploy_auto's teardown, when a delete-security-group is issued
\* for an old region, none of the old instances found in that region is still
\* running, also when the region held more than one.
C20_GroupsDeletedAfterAllInstances ==
    [][(script = "redeploy_auto" /\ pc = "cleanup_security_groups") =>
          \A x \in NewDeletes : deployments[x.region] \cap running[x.region] = {}]_vars

SecondRunPastCheck ==
    script = "redeploy_auto" /\ run_no = 2 /\ pc \notin {"deploy", "check"}

\* C21: a run of redeploy_auto.deploy that follows at once a run that deployed
\* successfully, with the same intensities, ends in the 'No need to redeploy'
\* branch: it has issued no terraform, DNS, terminate or delete command.
C21_SecondRunDoesNothing ==
    SecondRunPastCheck =>
        /\ pc = "done"
        /\ "No need to redeploy" \in out
        /\ cmds = {}

====
